---- MODULE Spec2Model ----
(***************************************************************************)
(* The quest-completion ledger of the quest tracker: the storage layer's   *)
(* completeQuest / cancelQuestCompletion / undoQuestCompletion and the     *)
(* profile row they credit and debit, together with the lazily created     *)
(* profile (getProfile, updateProfile) and the two profile routes, the     *)
(* archive of completions (archiveQuest, restoreQuestFromArchive,          *)
(* deleteArchivedQuest) and the deletion of quests and quest groups.       *)
(* In Spec, SpecLedger, SpecEngine, SpecArchive and SpecCatalog every      *)
(* action is one whole handler of server/routes.ts, run alone.             *)
(***************************************************************************)
EXTENDS Integers, Sequences, FiniteSets, TLC

\* SQL NULL in a text column
NULL == "null"
\* SQL NULL in a timestamp column
NoTime == -1

(* ---------------- program constants ---------------- *)

\* Math.floor(xp / 800) + 1
XpPerLevel == 800
\* Math.min(100, ...) and attributesSchema max(100)
MaxAttribute == 100
\* getProfile's defaultProfile
DefaultAttribute == 10

allowedAttributes == {"physique", "mental", "success", "social", "skills"}

(* ---------------- bounds of the model ---------------- *)

\* completions are not started once xp or cumulativeXp would pass this
MaxXp == 800
\* values new Date() can return
MaxClock == 1
\* largest availablePoints a request body carries
MaxPointsInput == 0

(* ---------------- the quests table ---------------- *)

QuestIds == {"q1", "q2"}
\* an id no row of the quests table has
UnknownQuestId == "q0"
QuestIdInputs == QuestIds \cup {UnknownQuestId}

\* rows of the quest_groups table: the group of the two quests and a group
\* without quests
GroupIds == {"g1", "g2"}
\* an id no row of the quest_groups table has
UnknownGroupId == "g0"
GroupIdInputs == GroupIds \cup {UnknownGroupId}

\* rows of the quests table: a quest rewarding one attribute, and a quest
\* whose points go to availablePoints; together they cross a level boundary
QuestRows ==
  [q \in QuestIds |->
     IF q = "q1"
     THEN [groupId |-> "g1", xpReward |-> 500, attributePointReward |-> 5,
           targetAttribute |-> "mental"]
     ELSE [groupId |-> "g1", xpReward |-> 300, attributePointReward |-> 3,
           targetAttribute |-> NULL]]

\* request bodies of PATCH /api/profile/attributes: the attributes object,
\* and the availablePoints number when the body has one (the points left
\* after spending, as the client sends them)
AttributeInputs ==
  { [a \in allowedAttributes |-> IF a = "mental" THEN v ELSE DefaultAttribute] :
      v \in {3, 98} }
PointsInputs == 0 .. MaxPointsInput

VARIABLES
  quests,         \* quests table: quest id -> row
  questGroups,    \* quest_groups table: the ids of its rows
  requests,       \* the requests in flight, one per client (SpecConcurrent)
  questProgress,  \* quest_progress table: a set of rows
  profile,        \* profile table: the sequence of its rows
  clock,          \* what new Date() returns now
  last,           \* the last request handled, its outcome, and what it came after
  pre             \* the profile table before the last request

vars == <<quests, questGroups, requests, questProgress, profile, clock, last, pre>>

Min(a, b) == IF a < b THEN a ELSE b
Max(a, b) == IF a > b THEN a ELSE b

(* ---------------- the profile row ---------------- *)

DefaultProfile ==
  [ level |-> 1, xp |-> 0, cumulativeXp |-> 0, availablePoints |-> 0,
    attributes |-> [a \in allowedAttributes |-> DefaultAttribute] ]

\* the clients whose requests the server handles at the same time
Clients == {"a", "b"}

\* a client with no request in flight. Of a request in flight: pc is the
\* statement it runs next, ts its completionTimestamp, cur what its select
\* of the profile returned and idx the place of that row, row and prof the
\* quest_progress row and the profile rows its open transaction has written
\* (wrote: it has updated the profile), data the attributes an updateProfile
\* carries, result the outcome once it is done
Idle ==
  [ op |-> "none", questId |-> NULL, pc |-> "idle", ts |-> NoTime, cur |-> <<>>,
    idx |-> 0, row |-> {}, wrote |-> FALSE, prof |-> <<>>,
    data |-> DefaultProfile.attributes, result |-> "pending" ]
AllIdle == [c \in Clients |-> Idle]

\* db.select().from(profile).limit(1)
SelectProfile(tbl) == SubSeq(tbl, 1, Min(1, Len(tbl)))

\* getProfile: the row, created with the defaults when the table is empty
getProfile(tbl) == IF Len(SelectProfile(tbl)) = 0 THEN <<DefaultProfile>> ELSE tbl

\* updateProfile(profileData): set the columns profileData has, in the row
\* getProfile returns
updateProfile(tbl, profileData) ==
  LET t == getProfile(tbl)
  IN  [t EXCEPT ![1] = [c \in DOMAIN t[1] |->
                          IF c \in DOMAIN profileData THEN profileData[c] ELSE t[1][c]]]

\* levels counted from 0 instead of 1
LevelForXp_FromZero(xp) == xp \div XpPerLevel

\* a level every 1000 xp
LevelForXp_PerThousand(xp) == (xp \div 1000) + 1

\* Math.floor(xp / 800) + 1
LevelForXp(xp) == (xp \div XpPerLevel) + 1

(* ---------------- the quest_progress table ---------------- *)

\* no id is found
QuestExists_Never(q) == FALSE

\* getQuest(id) finds a row
QuestExists(q) == q \in DOMAIN quests

HasProgress(rows, q) == \E r \in rows : r.questId = q
\* getQuestProgress: const [progress] = select ... where questId = q
getQuestProgress(rows, q) == CHOOSE r \in rows : r.questId = q

\* the check without its second half
NotCompleted_RowOnly(rows, q) == ~HasProgress(rows, q)

\* cancelQuestCompletion, undoQuestCompletion:
\* if (!existingProgress || !existingProgress.completed)
NotCompleted(rows, q) == ~HasProgress(rows, q) \/ ~getQuestProgress(rows, q).completed

\* any progress row passes
IsArchived_AnyRow(rows, q) == HasProgress(rows, q)

\* deleteArchivedQuest: existingProgress?.isArchived
IsArchived(rows, q) == HasProgress(rows, q) /\ getQuestProgress(rows, q).isArchived

\* gen_random_uuid(): an id no row has
FreshId(rows) == CHOOSE i \in 1 .. (Cardinality(rows) + 1) : \A r \in rows : r.id # i

\* the conflict branch without its CASE: completed_at always overwritten
UpsertCompletion_Overwrite(rows, q, ts) ==
  IF \E r \in rows : r.questId = q
  THEN { IF r.questId # q THEN r
         ELSE [r EXCEPT !.progress = IF r.completed THEN r.progress ELSE r.progress + 1,
                        !.completed = TRUE, !.completedAt = ts]
         : r \in rows }
  ELSE rows \cup
       { [ id |-> FreshId(rows), questId |-> q, progress |-> 1, completed |-> TRUE,
           completedAt |-> ts, isArchived |-> FALSE, archivedAt |-> NoTime,
           archiveReason |-> NULL, canUndo |-> TRUE ] }

\* INSERT ... ON CONFLICT (quest_id) DO UPDATE SET ... CASE WHEN completed = false
UpsertCompletion(rows, q, ts) ==
  IF HasProgress(rows, q)
  THEN { IF r.questId # q THEN r
         ELSE IF r.completed = FALSE
              THEN [r EXCEPT !.progress = r.progress + 1,
                             !.completed = TRUE,
                             !.completedAt = ts]
              ELSE r
         : r \in rows }
  ELSE rows \cup
       { [ id |-> FreshId(rows), questId |-> q, progress |-> 1, completed |-> TRUE,
           completedAt |-> ts, isArchived |-> FALSE, archivedAt |-> NoTime,
           archiveReason |-> NULL, canUndo |-> TRUE ] }

\* the RETURNING column was_just_completed: completed_at = our timestamp
wasJustCompleted(row, ts) == row.completedAt = ts

(* ---------------- credit and debit of the profile ---------------- *)

\* the credit without the cap
CreditAttribute_NoCap(attributeValue, reward) == attributeValue + reward

\* completeQuest: Math.min(100, attributeValue + quest.attributePointReward)
CreditAttribute(attributeValue, reward) == Min(MaxAttribute, attributeValue + reward)

\* cancelQuestCompletion, undoQuestCompletion:
\* Math.max(0, attributeValue - quest.attributePointReward)
DebitAttribute(attributeValue, reward) == Max(0, attributeValue - reward)

\* completeQuest: the tx.update(profile).set(updates) of a completion that
\* was just made. level, cumulativeXp and attributes are values computed
\* from the row read; xp and availablePoints are SQL expressions over the
\* row updated. The update has no WHERE. cur is the row the transaction's
\* select returned, tbl the table when the update runs.
CompleteUpdateFrom(cur, tbl, quest) ==
  LET currentXP == cur.xp
      newXP == currentXP + quest.xpReward
      currentLevel == LevelForXp(currentXP)
      newLevel == LevelForXp(newXP)
      levelIncrease == newLevel - currentLevel
      newCumulativeXP == cur.cumulativeXp + quest.xpReward
      rewarded == quest.attributePointReward > 0
      toAttribute == rewarded /\ quest.targetAttribute # NULL
      toPoints == rewarded /\ quest.targetAttribute = NULL
      updatedAttributes ==
        IF toAttribute
        THEN [cur.attributes EXCEPT ![quest.targetAttribute] =
                CreditAttribute(@, quest.attributePointReward)]
        ELSE cur.attributes
  IN  [i \in DOMAIN tbl |->
        [ level |-> newLevel,
          xp |-> tbl[i].xp + quest.xpReward,
          cumulativeXp |-> newCumulativeXP,
          attributes |-> IF toAttribute THEN updatedAttributes ELSE tbl[i].attributes,
          availablePoints |->
            (IF toPoints THEN tbl[i].availablePoints + quest.attributePointReward
                         ELSE tbl[i].availablePoints)
            + (IF levelIncrease > 0 THEN levelIncrease ELSE 0) ]]

\* the update of a completeQuest that runs alone: the row read is the row updated
CompleteUpdate(tbl, quest) == CompleteUpdateFrom(tbl[1], tbl, quest)

\* no whitelist check
CompleteThrows_Never(quest) == FALSE

\* completeQuest throws inside the transaction: the whitelist check
CompleteThrows(quest) ==
  /\ quest.attributePointReward > 0
  /\ quest.targetAttribute # NULL
  /\ quest.targetAttribute \notin allowedAttributes

\* the operands of the subtraction exchanged
CancelXp_Swapped(currentXP, xpReward) == Max(0, xpReward - currentXP)

\* cancelQuestCompletion: xp after the rollback
CancelXp(currentXP, xpReward) == Max(0, currentXP - xpReward)

\* cancelQuestCompletion: availablePoints after the rollback; GREATEST(0, ...)
\* is applied only when a level is lost
CancelPoints(points, quest, levelDecrease) ==
  LET afterReward ==
        IF quest.attributePointReward > 0 /\ quest.targetAttribute = NULL
        THEN points - quest.attributePointReward
        ELSE points
  IN  IF levelDecrease > 0 THEN Max(0, afterReward - levelDecrease) ELSE afterReward

\* cancelQuestCompletion: the tx.update(profile).set(updates); xp and level
\* are values computed from the row read (cur), the attribute and
\* availablePoints are SQL expressions over the row updated
CancelUpdateFrom(cur, tbl, quest) ==
  LET currentXP == cur.xp
      newXP == CancelXp(currentXP, quest.xpReward)
      currentLevel == LevelForXp(currentXP)
      newLevel == LevelForXp(newXP)
      levelDecrease == currentLevel - newLevel
      toAttribute == quest.attributePointReward > 0 /\ quest.targetAttribute # NULL
      newAttributeValue ==
        IF toAttribute
        THEN DebitAttribute(cur.attributes[quest.targetAttribute], quest.attributePointReward)
        ELSE 0
  IN  [i \in DOMAIN tbl |->
        [ level |-> newLevel,
          xp |-> Max(0, newXP),
          cumulativeXp |-> tbl[i].cumulativeXp,
          attributes |->
            IF toAttribute
            THEN [tbl[i].attributes EXCEPT ![quest.targetAttribute] = newAttributeValue]
            ELSE tbl[i].attributes,
          availablePoints |-> CancelPoints(tbl[i].availablePoints, quest, levelDecrease) ]]

\* the update of a cancelQuestCompletion that runs alone
CancelUpdate(tbl, quest) == CancelUpdateFrom(tbl[1], tbl, quest)

\* cancelQuestCompletion writes the attribute with
\*   sql`jsonb_set(${profile.attributes}, '{${quest.targetAttribute}}', '${newAttributeValue}'::jsonb)`
\* The two values are placeholders of the sql template that stand inside
\* quoted SQL literals. Whether the statement the driver sends does what the
\* line intends or is rejected by the database is not decided by this
\* source: both are outcomes, and a rejected statement aborts the transaction.
CancelStatementOutcomes(quest) ==
  IF quest.attributePointReward > 0 /\ quest.targetAttribute # NULL
  THEN {"applied", "rejected"}
  ELSE {"applied"}

\* the operands of the subtraction exchanged
UndoCumulativeXp_Swapped(currentCumulativeXP, xpReward) ==
  Max(0, xpReward - currentCumulativeXP)

\* undoQuestCompletion: cumulativeXp after the rollback
UndoCumulativeXp(currentCumulativeXP, xpReward) == Max(0, currentCumulativeXP - xpReward)

\* undoQuestCompletion throws inside the transaction: the whitelist check
UndoThrows(quest) ==
  /\ quest.attributePointReward > 0
  /\ quest.targetAttribute # NULL
  /\ quest.targetAttribute \notin allowedAttributes

\* undoQuestCompletion: the tx.update(profile).set(updates); every column
\* set is a value computed from the row read (cur)
UndoUpdateFrom(cur, tbl, quest) ==
  LET newCumulativeXP == UndoCumulativeXp(cur.cumulativeXp, quest.xpReward)
      rewarded == quest.attributePointReward > 0
      toAttribute == rewarded /\ quest.targetAttribute # NULL
      toPoints == rewarded /\ quest.targetAttribute = NULL
  IN  [i \in DOMAIN tbl |->
        [ level |-> tbl[i].level,
          xp |-> tbl[i].xp,
          cumulativeXp |-> newCumulativeXP,
          attributes |->
            IF toAttribute
            THEN [cur.attributes EXCEPT ![quest.targetAttribute] =
                    DebitAttribute(@, quest.attributePointReward)]
            ELSE tbl[i].attributes,
          availablePoints |->
            IF toPoints
            THEN Max(0, cur.availablePoints - quest.attributePointReward)
            ELSE tbl[i].availablePoints ]]

\* the update of an undoQuestCompletion that runs alone
UndoUpdate(tbl, quest) == UndoUpdateFrom(tbl[1], tbl, quest)

\* the reset that leaves completedAt in place
ResetCompletion_KeepTime(rows, q) ==
  { IF r.questId = q
    THEN [r EXCEPT !.progress = 0, !.completed = FALSE]
    ELSE r : r \in rows }

\* cancelQuestCompletion, undoQuestCompletion: UPDATE quest_progress SET
\* progress = 0, completed = false, completedAt = null WHERE quest_id = q
ResetCompletion(rows, q) ==
  { IF r.questId = q
    THEN [r EXCEPT !.progress = 0, !.completed = FALSE, !.completedAt = NoTime]
    ELSE r : r \in rows }

\* the archive reason left in place
ResetArchive_KeepReason(rows, q) ==
  { IF r.questId = q
    THEN [r EXCEPT !.isArchived = FALSE, !.archivedAt = NoTime]
    ELSE r : r \in rows }

\* undoQuestCompletion also takes the row out of the archive
ResetArchive(rows, q) ==
  { IF r.questId = q
    THEN [r EXCEPT !.isArchived = FALSE, !.archivedAt = NoTime, !.archiveReason = NULL]
    ELSE r : r \in rows }

(* ---------------- the requests ---------------- *)

NoRequest ==
  [op |-> "none", questId |-> NULL, result |-> "ok", flipped |-> FALSE, after |-> "other",
   archived |-> FALSE]

\* bookkeeping of the request just handled. flipped: the request changed the
\* completed column of the quest's progress row. after: whether the request
\* before it was a successful complete of the same quest, and whether that
\* one flipped the row ("flip") or found it completed ("repeat"). archived:
\* the quest's progress row was in the archive when the request came
Handled(op, q, result, flipped) ==
  /\ last' = [op |-> op, questId |-> q, result |-> result, flipped |-> flipped,
               after |-> IF last.op = "complete" /\ last.result = "ok" /\ last.questId = q
                         THEN IF last.flipped THEN "flip" ELSE "repeat"
                         ELSE "other",
               archived |-> IsArchived(questProgress, q)]
  /\ pre' = profile

Init ==
  /\ quests = QuestRows
  /\ questGroups = GroupIds
  /\ requests = AllIdle
  /\ questProgress = {}
  /\ profile = <<>>
  /\ clock = 0
  /\ last = NoRequest
  /\ pre = <<>>

\* time passes: a later new Date() is a later millisecond
Tick ==
  /\ clock < MaxClock
  /\ clock' = clock + 1
  /\ UNCHANGED <<quests, questGroups, requests, questProgress, profile, last, pre>>

\* GET /api/profile
GetProfile ==
  /\ profile' = getProfile(profile)
  /\ Handled("getProfile", NULL, "ok", FALSE)
  /\ UNCHANGED <<quests, questGroups, requests, questProgress, clock>>

\* PATCH /api/profile/attributes: attributes validated by attributesSchema,
\* availablePoints taken as sent when it is a number
PatchProfileAttributes ==
  /\ \E attributes \in AttributeInputs :
       \/ profile' = updateProfile(profile, [attributes |-> attributes])
       \/ \E availablePoints \in PointsInputs :
            profile' = updateProfile(profile, [attributes |-> attributes,
                                               availablePoints |-> availablePoints])
  /\ Handled("patchAttributes", NULL, "ok", FALSE)
  /\ UNCHANGED <<quests, questGroups, requests, questProgress, clock>>

\* PATCH /api/profile/admin-points: 400 for a negative number
PatchAdminPoints ==
  /\ \E availablePoints \in PointsInputs :
       IF availablePoints < 0
       THEN /\ profile' = profile
            /\ Handled("adminPoints", NULL, "ValidationError", FALSE)
       ELSE /\ profile' = updateProfile(profile, [availablePoints |-> availablePoints])
            /\ Handled("adminPoints", NULL, "ok", FALSE)
  /\ UNCHANGED <<quests, questGroups, requests, questProgress, clock>>

\* POST /api/quests/:questId/complete -> storage.completeQuest
CompleteQuest(q) ==
  /\ UNCHANGED <<quests, questGroups, requests, clock>>
  /\ IF ~QuestExists(q)
     THEN /\ Handled("complete", q, "NotFound", FALSE)
          /\ UNCHANGED <<questProgress, profile>>
     ELSE LET quest == quests[q]
              completionTimestamp == clock
              flips == ~HasProgress(questProgress, q)
                       \/ getQuestProgress(questProgress, q).completed = FALSE
              upserted == UpsertCompletion(questProgress, q, completionTimestamp)
              progressResult == getQuestProgress(upserted, q)
              awards == progressResult.completed
                        /\ wasJustCompleted(progressResult, completionTimestamp)
              currentProfile == SelectProfile(profile)
          IN  IF awards /\ Len(currentProfile) > 0
              THEN IF CompleteThrows(quest)
                   THEN /\ Handled("complete", q, "error", FALSE)
                        /\ UNCHANGED <<questProgress, profile>>
                   ELSE /\ profile' = CompleteUpdate(profile, quest)
                        /\ profile'[1].xp <= MaxXp
                        /\ profile'[1].cumulativeXp <= MaxXp
                        /\ questProgress' = upserted
                        /\ Handled("complete", q, "ok", flips)
              ELSE /\ questProgress' = upserted
                   /\ profile' = profile
                   /\ Handled("complete", q, "ok", flips)

\* POST /api/quests/:questId/cancel -> storage.cancelQuestCompletion
CancelQuestCompletion(q) ==
  /\ UNCHANGED <<quests, questGroups, requests, clock>>
  /\ IF ~QuestExists(q)
     THEN /\ Handled("cancel", q, "NotFound", FALSE)
          /\ UNCHANGED <<questProgress, profile>>
     ELSE IF NotCompleted(questProgress, q)
     THEN /\ Handled("cancel", q, "InvalidState", FALSE)
          /\ UNCHANGED <<questProgress, profile>>
     ELSE \E outcome \in
               (IF Len(SelectProfile(profile)) > 0
                THEN CancelStatementOutcomes(quests[q]) ELSE {"applied"}) :
            IF outcome = "rejected"
            THEN /\ Handled("cancel", q, "error", FALSE)
                 /\ UNCHANGED <<questProgress, profile>>
            ELSE /\ questProgress' = ResetCompletion(questProgress, q)
                 /\ profile' = IF Len(SelectProfile(profile)) > 0
                               THEN CancelUpdate(profile, quests[q])
                               ELSE profile
                 /\ Handled("cancel", q, "ok", TRUE)

\* POST /api/quests/:questId/undo -> storage.undoQuestCompletion
UndoQuestCompletion(q) ==
  /\ UNCHANGED <<quests, questGroups, requests, clock>>
  /\ IF ~QuestExists(q)
     THEN /\ Handled("undo", q, "NotFound", FALSE)
          /\ UNCHANGED <<questProgress, profile>>
     ELSE IF NotCompleted(questProgress, q)
     THEN /\ Handled("undo", q, "InvalidState", FALSE)
          /\ UNCHANGED <<questProgress, profile>>
     ELSE IF Len(SelectProfile(profile)) > 0 /\ UndoThrows(quests[q])
     THEN /\ Handled("undo", q, "error", FALSE)
          /\ UNCHANGED <<questProgress, profile>>
     ELSE /\ questProgress' = ResetArchive(ResetCompletion(questProgress, q), q)
          /\ profile' = IF Len(SelectProfile(profile)) > 0
                        THEN UndoUpdate(profile, quests[q])
                        ELSE profile
          /\ Handled("undo", q, "ok", TRUE)

Next ==
  \/ Tick
  \/ GetProfile
  \/ PatchProfileAttributes
  \/ PatchAdminPoints
  \/ \E q \in QuestIdInputs : CompleteQuest(q)
  \/ \E q \in QuestIdInputs : CancelQuestCompletion(q)
  \/ \E q \in QuestIdInputs : UndoQuestCompletion(q)

Spec == Init /\ [][Next]_vars

(* ---------------- the ledger alone ---------------- *)

\* profile tables the ledger can start from: no row yet, or a row whose
\* attributes and availablePoints were set through the profile routes
LedgerProfiles ==
  {<<>>} \cup
  { <<[DefaultProfile EXCEPT !.attributes = a, !.availablePoints = n]>> :
      a \in AttributeInputs \cup {DefaultProfile.attributes}, n \in 0 .. MaxPointsInput }

InitLedger ==
  /\ quests = QuestRows
  /\ questGroups = GroupIds
  /\ requests = AllIdle
  /\ questProgress = {}
  /\ profile \in LedgerProfiles
  /\ clock = 0
  /\ last = NoRequest
  /\ pre = profile

\* only Complete, CancelCompletion and UndoCompletion, and the lazy GetProfile
NextLedger ==
  \/ Tick
  \/ GetProfile
  \/ \E q \in QuestIdInputs : CompleteQuest(q)
  \/ \E q \in QuestIdInputs : CancelQuestCompletion(q)
  \/ \E q \in QuestIdInputs : UndoQuestCompletion(q)

SpecLedger == InitLedger /\ [][NextLedger]_vars

(* ---------------- the archive of completions ---------------- *)

\* the reason the archive route takes when the body has none
DefaultArchiveReason == "Archived by user"

\* archiving that also takes the completion back
SetArchived_Uncompleting(rows, q, ts, reason) ==
  { IF r.questId = q
    THEN [r EXCEPT !.isArchived = TRUE, !.archivedAt = ts,
                   !.archiveReason = reason, !.canUndo = TRUE, !.completed = FALSE]
    ELSE r : r \in rows }

\* archiveQuest: UPDATE quest_progress SET isArchived = true,
\* archivedAt = new Date(), archiveReason = reason, canUndo = true
SetArchived(rows, q, ts, reason) ==
  { IF r.questId = q
    THEN [r EXCEPT !.isArchived = TRUE, !.archivedAt = ts,
                   !.archiveReason = reason, !.canUndo = TRUE]
    ELSE r : r \in rows }

\* restoreQuestFromArchive: UPDATE quest_progress SET isArchived = false,
\* archivedAt = null, archiveReason = null, canUndo = true
ClearArchived(rows, q) ==
  { IF r.questId = q
    THEN [r EXCEPT !.isArchived = FALSE, !.archivedAt = NoTime,
                   !.archiveReason = NULL, !.canUndo = TRUE]
    ELSE r : r \in rows }

\* a delete that removes nothing
DeleteProgress_None(rows, q) == rows

\* db.delete(questProgress).where(eq(questProgress.questId, q))
DeleteProgress(rows, q) == { r \in rows : r.questId # q }

\* POST /api/quests/:questId/archive -> storage.archiveQuest. Without a
\* progress row the storage throws 'Quest progress not found', a message the
\* route does not map: 500
ArchiveQuest(q) ==
  /\ UNCHANGED <<quests, questGroups, requests, clock, profile>>
  /\ IF ~HasProgress(questProgress, q)
     THEN /\ Handled("archive", q, "error", FALSE)
          /\ UNCHANGED questProgress
     ELSE /\ questProgress' = SetArchived(questProgress, q, clock, DefaultArchiveReason)
          /\ Handled("archive", q, "ok", FALSE)

\* storage.restoreQuestFromArchive
RestoreQuestFromArchive(q) ==
  /\ UNCHANGED <<quests, questGroups, requests, clock, profile>>
  /\ IF ~HasProgress(questProgress, q)
     THEN /\ Handled("restore", q, "error", FALSE)
          /\ UNCHANGED questProgress
     ELSE /\ questProgress' = ClearArchived(questProgress, q)
          /\ Handled("restore", q, "ok", FALSE)

\* DELETE /api/quests/:questId/archive -> storage.deleteArchivedQuest
DeleteArchivedQuest(q) ==
  /\ UNCHANGED <<quests, questGroups, requests, clock, profile>>
  /\ IF ~IsArchived(questProgress, q)
     THEN /\ Handled("deleteArchived", q, "InvalidState", FALSE)
          /\ UNCHANGED questProgress
     ELSE /\ questProgress' = DeleteProgress(questProgress, q)
          /\ Handled("deleteArchived", q, "ok", FALSE)

\* the progress engine on a fixed catalog, from the default profile
InitEngine ==
  /\ quests = QuestRows
  /\ questGroups = GroupIds
  /\ requests = AllIdle
  /\ questProgress = {}
  /\ profile = <<DefaultProfile>>
  /\ clock = 0
  /\ last = NoRequest
  /\ pre = profile

NextEngine ==
  \/ Tick
  \/ \E q \in QuestIdInputs : CompleteQuest(q)
  \/ \E q \in QuestIdInputs : CancelQuestCompletion(q)
  \/ \E q \in QuestIdInputs : UndoQuestCompletion(q)
  \/ \E q \in QuestIdInputs : ArchiveQuest(q)
  \/ \E q \in QuestIdInputs : DeleteArchivedQuest(q)

SpecEngine == InitEngine /\ [][NextEngine]_vars

\* a quest whose target_attribute, a text column the quests routes fill with
\* any string, is none of the five attribute names
OddQuestId == "q3"
ArchiveQuestIds == {"q1", OddQuestId}
ArchiveQuestIdInputs == ArchiveQuestIds \cup {UnknownQuestId}
ArchiveQuestRows ==
  [q \in ArchiveQuestIds |->
     IF q = OddQuestId
     THEN [groupId |-> "g1", xpReward |-> 100, attributePointReward |-> 2,
           targetAttribute |-> "luck"]
     ELSE QuestRows[q]]

\* the progress engine with the archive, from an empty store
InitArchive ==
  /\ quests = ArchiveQuestRows
  /\ questGroups = GroupIds
  /\ requests = AllIdle
  /\ questProgress = {}
  /\ profile = <<>>
  /\ clock = 0
  /\ last = NoRequest
  /\ pre = <<>>

NextArchive ==
  \/ Tick
  \/ GetProfile
  \/ \E q \in ArchiveQuestIdInputs : CompleteQuest(q)
  \/ \E q \in ArchiveQuestIdInputs : CancelQuestCompletion(q)
  \/ \E q \in ArchiveQuestIdInputs : UndoQuestCompletion(q)
  \/ \E q \in ArchiveQuestIdInputs : ArchiveQuest(q)
  \/ \E q \in ArchiveQuestIdInputs : RestoreQuestFromArchive(q)
  \/ \E q \in ArchiveQuestIdInputs : DeleteArchivedQuest(q)

SpecArchive == InitArchive /\ [][NextArchive]_vars

(* ---------------- deleting quests and quest groups ---------------- *)

\* the quests of a group: where(eq(quests.groupId, id))
QuestsOfGroup(g) == { q \in DOMAIN quests : quests[q].groupId = g }

\* quest_progress.quest_id references quests.id with no ON DELETE action:
\* a DELETE on quests fails when a progress row references one of the rows
ReferencedByProgress(qs) == \E r \in questProgress : r.questId \in qs

\* result.rowCount ? result.rowCount > 0 : false, for a statement that
\* deleted n rows. rowCount is a field of the driver's result object;
\* whether the result of the postgres-js driver carries it is not decided
\* by this source: it is the number of rows, or it is absent
RowCountDeleted(n) == {n > 0, FALSE}

\* DELETE /api/quest-groups/:id -> storage.deleteQuestGroup. The two deletes
\* are two statements outside any transaction; the first one fails as a
\* whole on a foreign key violation and the route answers 500
DeleteQuestGroup(g) ==
  /\ UNCHANGED <<requests, questProgress, profile, clock>>
  /\ IF ReferencedByProgress(QuestsOfGroup(g))
     THEN /\ Handled("deleteQuestGroup", g, "error", FALSE)
          /\ UNCHANGED <<quests, questGroups>>
     ELSE /\ quests' = [q \in DOMAIN quests \ QuestsOfGroup(g) |-> quests[q]]
          /\ questGroups' = questGroups \ {g}
          /\ \E deleted \in RowCountDeleted(Cardinality(questGroups \cap {g})) :
               Handled("deleteQuestGroup", g, IF deleted THEN "ok" ELSE "NotFound", FALSE)

\* DELETE /api/quests/:id -> storage.deleteQuest: the quest's progress row
\* first, then the quest
DeleteQuest(q) ==
  /\ UNCHANGED <<requests, questGroups, profile, clock>>
  /\ questProgress' = DeleteProgress(questProgress, q)
  /\ quests' = [x \in DOMAIN quests \ {q} |-> quests[x]]
  /\ \E deleted \in RowCountDeleted(Cardinality(DOMAIN quests \cap {q})) :
       Handled("deleteQuest", q, IF deleted THEN "ok" ELSE "NotFound", FALSE)

\* the catalog with its groups, and the completions that reference it
InitCatalog ==
  /\ quests = QuestRows
  /\ questGroups = GroupIds
  /\ requests = AllIdle
  /\ questProgress = {}
  /\ profile \in {<<>>, <<DefaultProfile>>}
  /\ clock = 0
  /\ last = NoRequest
  /\ pre = profile

NextCatalog ==
  \/ Tick
  \/ \E q \in QuestIdInputs : CompleteQuest(q)
  \/ \E q \in QuestIdInputs : UndoQuestCompletion(q)
  \/ \E q \in QuestIdInputs : ArchiveQuest(q)
  \/ \E q \in QuestIdInputs : DeleteArchivedQuest(q)
  \/ \E q \in QuestIdInputs : DeleteQuest(q)
  \/ \E g \in GroupIdInputs : DeleteQuestGroup(g)

SpecCatalog == InitCatalog /\ [][NextCatalog]_vars

(* ---------------- requests handled at the same time ---------------- *)

\* the stores the interleaved requests start from: the empty store, the
\* store after a first GetProfile, that store after one Complete ...
CompletedStore(q) ==
  [ questProgress |-> UpsertCompletion({}, q, 0),
    profile |-> CompleteUpdate(<<DefaultProfile>>, QuestRows[q]) ]
\* ... and after a Cancel of that completion: a row that is not completed
CancelledStore(q) ==
  [ questProgress |-> ResetCompletion(CompletedStore(q).questProgress, q),
    profile |-> CancelUpdate(CompletedStore(q).profile, QuestRows[q]) ]
StartStores ==
  { [questProgress |-> {}, profile |-> <<>>],
    [questProgress |-> {}, profile |-> <<DefaultProfile>>] }
  \cup { CompletedStore(q) : q \in QuestIds }
  \cup { CancelledStore(q) : q \in QuestIds }

InitConcurrent ==
  /\ quests = QuestRows
  /\ questGroups = GroupIds
  /\ requests = AllIdle
  /\ \E s \in StartStores : questProgress = s.questProgress /\ profile = s.profile
  /\ clock = 0
  /\ last = NoRequest
  /\ pre = profile

\* a statement of client c's request leaves r as the request's state
Goes(c, r) == requests' = [requests EXCEPT ![c] = r]
\* the request of client c ends: its transaction, if any, is over
Ends(c, result) ==
  Goes(c, [requests[c] EXCEPT !.pc = "done", !.result = result, !.cur = <<>>,
                              !.row = {}, !.wrote = FALSE, !.prof = <<>>])

\* the quest_progress rows written by transactions that are still open
PendingRows == UNION { requests[d].row : d \in Clients }
\* no statement waits
RowLocked_Never(c, q) == FALSE

\* another open transaction has written quest q's progress row: a statement
\* that writes the row, or inserts a row with the same quest_id, waits
RowLocked(c, q) ==
  \E d \in Clients \ {c} : \E r \in requests[d].row : r.questId = q
\* another open transaction has updated the profile rows
ProfileLocked(c) == \E d \in Clients \ {c} : requests[d].wrote

\* completeQuest up to its transaction: getQuest
BeginComplete(c, q) ==
  /\ requests[c].pc = "idle"
  /\ Goes(c, IF QuestExists(q)
             THEN [Idle EXCEPT !.op = "complete", !.questId = q, !.pc = "upsert"]
             ELSE [Idle EXCEPT !.op = "complete", !.questId = q, !.pc = "done",
                               !.result = "NotFound"])
  /\ UNCHANGED <<quests, questGroups, questProgress, profile, clock, last, pre>>

\* cancelQuestCompletion and undoQuestCompletion up to their transaction:
\* getQuest, then getQuestProgress and the completed check
BeginRollback(c, op, q) ==
  /\ requests[c].pc = "idle"
  /\ Goes(c, IF ~QuestExists(q)
             THEN [Idle EXCEPT !.op = op, !.questId = q, !.pc = "done",
                               !.result = "NotFound"]
             ELSE IF NotCompleted(questProgress, q)
             THEN [Idle EXCEPT !.op = op, !.questId = q, !.pc = "done",
                               !.result = "InvalidState"]
             ELSE [Idle EXCEPT !.op = op, !.questId = q, !.pc = "resetRow"])
  /\ UNCHANGED <<quests, questGroups, questProgress, profile, clock, last, pre>>
BeginCancel(c, q) == BeginRollback(c, "cancel", q)
BeginUndo(c, q) == BeginRollback(c, "undo", q)

\* completeQuest: new Date() and the upsert, inside the transaction
CompleteUpsert(c) ==
  LET q == requests[c].questId
      completionTimestamp == clock
      upserted == UpsertCompletion(questProgress, q, completionTimestamp)
      \* an inserted row gets an id that no committed or pending row has
      progressResult ==
        IF HasProgress(questProgress, q)
        THEN getQuestProgress(upserted, q)
        ELSE [getQuestProgress(upserted, q) EXCEPT
                !.id = FreshId(questProgress \cup PendingRows)]
      awards == progressResult.completed
                /\ wasJustCompleted(progressResult, completionTimestamp)
  IN  /\ requests[c].pc = "upsert"
      /\ ~RowLocked(c, q)
      /\ Goes(c, [requests[c] EXCEPT !.ts = completionTimestamp,
                                     !.row = {progressResult},
                                     !.pc = IF awards THEN "selectProfile" ELSE "commit"])
      /\ UNCHANGED <<quests, questGroups, questProgress, profile, clock, last, pre>>

\* cancelQuestCompletion, undoQuestCompletion: the update of the progress
\* row, inside the transaction
RollbackResetRow(c) ==
  LET q == requests[c].questId
      reset == IF requests[c].op = "undo"
               THEN ResetArchive(ResetCompletion(questProgress, q), q)
               ELSE ResetCompletion(questProgress, q)
  IN  /\ requests[c].pc = "resetRow"
      /\ ~RowLocked(c, q)
      /\ Goes(c, [requests[c] EXCEPT !.row = { r \in reset : r.questId = q },
                                     !.pc = "selectProfile"])
      /\ UNCHANGED <<quests, questGroups, questProgress, profile, clock, last, pre>>

\* tx.select().from(profile).limit(1): the rows committed by now. With no
\* row the transaction has nothing more to do; the whitelist check of
\* completeQuest and undoQuestCompletion throws and the transaction rolls back
TxSelectProfile(c) ==
  LET quest == quests[requests[c].questId]
      currentProfile == SelectProfile(profile)
      throws == \/ requests[c].op = "complete" /\ CompleteThrows(quest)
                \/ requests[c].op = "undo" /\ UndoThrows(quest)
  IN  /\ requests[c].pc = "selectProfile"
      /\ IF Len(currentProfile) = 0
         THEN Goes(c, [requests[c] EXCEPT !.pc = "commit"])
         ELSE IF throws
         THEN Ends(c, "error")
         ELSE Goes(c, [requests[c] EXCEPT !.cur = currentProfile, !.pc = "updateProfile"])
      /\ UNCHANGED <<quests, questGroups, questProgress, profile, clock, last, pre>>

\* tx.update(profile).set(updates): waits for the rows' lock, then writes
\* the values computed from the row read earlier and evaluates the SQL
\* expressions on the rows as committed by now. A rejected statement of
\* cancelQuestCompletion rolls the transaction back
TxUpdateProfile(c) ==
  LET quest == quests[requests[c].questId]
      cur == requests[c].cur[1]
      updated == IF requests[c].op = "complete" THEN CompleteUpdateFrom(cur, profile, quest)
                 ELSE IF requests[c].op = "cancel" THEN CancelUpdateFrom(cur, profile, quest)
                 ELSE UndoUpdateFrom(cur, profile, quest)
  IN  /\ requests[c].pc = "updateProfile"
      /\ ~ProfileLocked(c)
      /\ \E outcome \in (IF requests[c].op = "cancel"
                         THEN CancelStatementOutcomes(quest) ELSE {"applied"}) :
           IF outcome = "rejected"
           THEN Ends(c, "error")
           ELSE Goes(c, [requests[c] EXCEPT !.prof = updated, !.wrote = TRUE,
                                            !.pc = "commit"])
      /\ UNCHANGED <<quests, questGroups, questProgress, profile, clock, last, pre>>

\* the transaction commits: the progress row it wrote replaces the committed
\* version of that row (the row with its id) or, when it was inserted, joins
\* the table; its profile rows replace the committed ones
TxCommit(c) ==
  /\ requests[c].pc = "commit"
  /\ questProgress' = { r \in questProgress : \A w \in requests[c].row : w.id # r.id }
                       \cup requests[c].row
  /\ profile' = IF requests[c].wrote
                THEN [i \in DOMAIN profile |->
                        IF i <= Len(requests[c].prof) THEN requests[c].prof[i]
                        ELSE profile[i]]
                ELSE profile
  /\ Ends(c, "ok")
  /\ UNCHANGED <<quests, questGroups, clock, last, pre>>

\* GET /api/profile and PATCH /api/profile/attributes arrive
BeginGetProfile(c) ==
  /\ requests[c].pc = "idle"
  /\ Goes(c, [Idle EXCEPT !.op = "getProfile", !.pc = "select"])
  /\ UNCHANGED <<quests, questGroups, questProgress, profile, clock, last, pre>>
BeginUpdateProfile(c) ==
  /\ requests[c].pc = "idle"
  /\ \E attributes \in AttributeInputs :
       Goes(c, [Idle EXCEPT !.op = "updateProfile", !.data = attributes, !.pc = "select"])
  /\ UNCHANGED <<quests, questGroups, questProgress, profile, clock, last, pre>>

\* getProfile: db.select().from(profile).limit(1)
GetProfileSelect(c) ==
  LET existingProfile == SelectProfile(profile)
  IN  /\ requests[c].pc = "select"
      /\ IF Len(existingProfile) = 0
         THEN Goes(c, [requests[c] EXCEPT !.pc = "insert"])
         ELSE IF requests[c].op = "getProfile"
         THEN Ends(c, "ok")
         ELSE Goes(c, [requests[c] EXCEPT !.idx = 1, !.pc = "update"])
      /\ UNCHANGED <<quests, questGroups, questProgress, profile, clock, last, pre>>

\* getProfile: db.insert(profile).values(defaultProfile), when the select
\* found no row
GetProfileInsert(c) ==
  /\ requests[c].pc = "insert"
  /\ profile' = Append(profile, DefaultProfile)
  /\ IF requests[c].op = "getProfile"
     THEN Ends(c, "ok")
     ELSE Goes(c, [requests[c] EXCEPT !.idx = Len(profile) + 1, !.pc = "update"])
  /\ UNCHANGED <<quests, questGroups, questProgress, clock, last, pre>>

\* updateProfile: db.update(profile).set(profileData).where(eq(profile.id,
\* currentProfile.id)); waits while an open transaction has written the row
UpdateProfileUpdate(c) ==
  /\ requests[c].pc = "update"
  /\ ~ProfileLocked(c)
  /\ profile' = [profile EXCEPT ![requests[c].idx].attributes = requests[c].data]
  /\ Ends(c, "ok")
  /\ UNCHANGED <<quests, questGroups, questProgress, clock, last, pre>>

NextConcurrent ==
  \/ Tick
  \/ \E c \in Clients, q \in QuestIdInputs : BeginComplete(c, q)
  \/ \E c \in Clients, q \in QuestIdInputs : BeginCancel(c, q)
  \/ \E c \in Clients, q \in QuestIdInputs : BeginUndo(c, q)
  \/ \E c \in Clients : CompleteUpsert(c)
  \/ \E c \in Clients : RollbackResetRow(c)
  \/ \E c \in Clients : TxSelectProfile(c)
  \/ \E c \in Clients : TxUpdateProfile(c)
  \/ \E c \in Clients : TxCommit(c)
  \/ \E c \in Clients : BeginGetProfile(c)
  \/ \E c \in Clients : BeginUpdateProfile(c)
  \/ \E c \in Clients : GetProfileSelect(c)
  \/ \E c \in Clients : GetProfileInsert(c)
  \/ \E c \in Clients : UpdateProfileUpdate(c)

SpecConcurrent == InitConcurrent /\ [][NextConcurrent]_vars

(* ---------------- properties ---------------- *)

\* the last request was a successful Complete
CompletedOk == last.op = "complete" /\ last.result = "ok"
\* the last request was a Complete that flipped its row, with a profile row present
FlippedWithProfile == CompletedOk /\ last.flipped /\ Len(pre) > 0

\* this step is a successful Cancel (Undo) of quest q that comes right after
\* a Complete of q which flipped the row while a profile row existed; pre is
\* then the profile before that Complete
CancelRightAfterComplete(q) ==
  /\ FlippedWithProfile /\ last.questId = q
  /\ CancelQuestCompletion(q) /\ last'.result = "ok"
UndoRightAfterComplete(q) ==
  /\ FlippedWithProfile /\ last.questId = q
  /\ UndoQuestCompletion(q) /\ last'.result = "ok"

\* C1: a Complete that comes right after a successful Complete of the same
\* quest leaves the profile as the first one left it: xp, level, cumulativeXp,
\* availablePoints and attributes are credited once.
C1_CompleteTwiceCreditsOnce ==
  (CompletedOk /\ last.after \in {"flip", "repeat"}) => profile = pre

\* C2: a Complete that flips the row while a profile row exists adds xpReward
\* to xp and to cumulativeXp, sets level to floor(xp / 800) + 1, adds the
\* levels gained to availablePoints, and credits attributePointReward to the
\* target attribute capped at 100, or to availablePoints when there is no
\* target; the other attributes keep their values.
C2_CompleteCredit ==
  FlippedWithProfile =>
    LET quest == quests[last.questId]
        old == pre[1]
        new == profile[1]
        toAttribute == quest.attributePointReward > 0 /\ quest.targetAttribute # NULL
        toPoints == quest.attributePointReward > 0 /\ quest.targetAttribute = NULL
    IN  /\ new.xp = old.xp + quest.xpReward
        /\ new.cumulativeXp = old.cumulativeXp + quest.xpReward
        /\ new.level = (new.xp \div 800) + 1
        /\ new.level >= old.level
        /\ new.availablePoints = old.availablePoints + (new.level - old.level)
                                 + (IF toPoints THEN quest.attributePointReward ELSE 0)
        /\ \A a \in allowedAttributes :
             new.attributes[a] =
               IF toAttribute /\ a = quest.targetAttribute
               THEN (IF old.attributes[a] + quest.attributePointReward > 100
                     THEN 100 ELSE old.attributes[a] + quest.attributePointReward)
               ELSE old.attributes[a]

\* a Complete that gained a level and rewarded availablePoints
C2_Witness ==
  /\ FlippedWithProfile
  /\ profile[1].level = pre[1].level + 1
  /\ profile[1].availablePoints = pre[1].availablePoints + 4

C4_CancelRestoresAttributeAndPoints ==
  [][\A q \in QuestIds :
       (CancelRightAfterComplete(q)
        /\ \A a \in allowedAttributes :
             pre[1].attributes[a] >= 0 /\ pre[1].attributes[a] <= 100) =>
         /\ profile'[1].attributes = pre[1].attributes
         /\ profile'[1].availablePoints = pre[1].availablePoints]_vars

\* C5: Complete of a not-completed quest followed at once by Undo of it gives
\* cumulativeXp its value from before the Complete, and the Undo leaves xp
\* and level as the Complete left them.
C5_UndoRestoresCumulativeXp ==
  [][\A q \in QuestIds :
       UndoRightAfterComplete(q) =>
         /\ profile'[1].cumulativeXp = pre[1].cumulativeXp
         /\ profile'[1].xp = profile[1].xp
         /\ profile'[1].level = profile[1].level]_vars

\* an Undo right after a Complete that had gained a level: the level stays
C5_Witness ==
  /\ last.op = "undo" /\ last.result = "ok" /\ last.after = "flip"
  /\ Len(pre) > 0 /\ Len(profile) > 0
  /\ profile[1].level = 2 /\ profile[1].xp = 800
  /\ profile[1].cumulativeXp < pre[1].cumulativeXp

\* C6: Complete of a not-completed quest followed at once by Undo of it gives
\* the target attribute and availablePoints their values from before the
\* Complete, also when the Complete gained a level or hit the cap of 100.
C6_UndoRestoresAttributeAndPoints ==
  [][\A q \in QuestIds :
       UndoRightAfterComplete(q) =>
         /\ profile'[1].attributes = pre[1].attributes
         /\ profile'[1].availablePoints = pre[1].availablePoints]_vars

\* C7: every attribute of the profile is within [0,100] in every state.
C7_AttributesInRange ==
  \A i \in DOMAIN profile : \A a \in allowedAttributes :
    profile[i].attributes[a] >= 0 /\ profile[i].attributes[a] <= 100

\* a Complete whose attribute credit was cut at 100
C7_Witness ==
  /\ FlippedWithProfile /\ last.questId = "q1"
  /\ pre[1].attributes["mental"] = 98
  /\ profile[1].attributes["mental"] = 100

\* C8: with only Complete, Cancel, Undo and the lazy GetProfile, from an
\* empty store or a profile with non-negative values, availablePoints, xp
\* and cumulativeXp are never negative.
C8_LedgerNonNegative ==
  \A i \in DOMAIN profile :
    /\ profile[i].availablePoints >= 0
    /\ profile[i].xp >= 0
    /\ profile[i].cumulativeXp >= 0

\* C9: a successful Cancel of a quest whose reward the profile holds leaves
\* availablePoints at 0 or more, also when the points the completion gave
\* were spent before the Cancel.
C9_CancelFloorsPoints ==
  (last.op = "cancel" /\ last.result = "ok" /\ Len(pre) > 0
   /\ pre[1].availablePoints >= 0
   /\ pre[1].cumulativeXp >= quests[last.questId].xpReward) =>
     profile[1].availablePoints >= 0

\* C10: a Complete that flipped the row has its credit in the profile: there
\* is a profile row and it holds the quest's xpReward on top of what it held.
C10_CompletionIsCredited ==
  (CompletedOk /\ last.flipped) =>
     /\ Len(pre) > 0 /\ Len(profile) > 0
     /\ profile[1].xp = pre[1].xp + quests[last.questId].xpReward
     /\ profile[1].cumulativeXp = pre[1].cumulativeXp + quests[last.questId].xpReward

\* the progress row of quest q is there and completed (archived)
RowCompleted(rows, q) == \E r \in rows : r.questId = q /\ r.completed = TRUE
RowArchived(rows, q) == \E r \in rows : r.questId = q /\ r.isArchived = TRUE
\* the progress row of quest q is there and fully Inactive
RowInactive(rows, q) ==
  \E r \in rows :
    /\ r.questId = q
    /\ r.progress = 0 /\ r.completed = FALSE /\ r.completedAt = NoTime
    /\ r.isArchived = FALSE /\ r.archivedAt = NoTime /\ r.archiveReason = NULL

RECURSIVE SumXpReward(_)
SumXpReward(qs) ==
  IF qs = {} THEN 0
  ELSE LET q == CHOOSE x \in qs : TRUE
       IN  quests[q].xpReward + SumXpReward(qs \ {q})

\* C12: on a fixed catalog, from the default profile, after any sequence of
\* Complete, Cancel, Undo, Archive and DeleteArchived the profile's xp is the
\* sum of xpReward over the quests whose progress row is completed.
C12_XpCountsCompletedQuests ==
  \A i \in DOMAIN profile :
    profile[i].xp = SumXpReward({ q \in DOMAIN quests : RowCompleted(questProgress, q) })

\* C14: a Cancel of a quest whose row is archived fails and changes neither
\* the progress rows nor the profile, and every successful Cancel leaves the
\* quest's row not completed and not archived.
C14_CancelOnlyFromCompleted ==
  [][\A q \in ArchiveQuestIdInputs :
       CancelQuestCompletion(q) =>
         /\ RowArchived(questProgress, q) =>
              /\ last'.result # "ok"
              /\ questProgress' = questProgress
              /\ profile' = profile
         /\ last'.result = "ok" =>
              \E r \in questProgress' :
                r.questId = q /\ r.completed = FALSE /\ r.isArchived = FALSE]_vars

C16_NotCompletedIsInvalidState ==
  [][\A q \in ArchiveQuestIdInputs :
       (CancelQuestCompletion(q) \/ UndoQuestCompletion(q)) =>
         /\ (q \in DOMAIN quests /\ ~RowCompleted(questProgress, q)) =>
              /\ last'.result = "InvalidState"
              /\ questProgress' = questProgress
              /\ profile' = profile
         /\ q \notin DOMAIN quests =>
              /\ last'.result = "NotFound"
              /\ questProgress' = questProgress
              /\ profile' = profile]_vars

\* a Cancel or Undo refused for a row that is there and not completed
C16_Witness ==
  /\ last.op \in {"cancel", "undo"} /\ last.result = "InvalidState"
  /\ \E r \in questProgress : r.questId = last.questId /\ r.completed = FALSE

\* C17: a Complete fails with NotFound exactly when the quest id is not in
\* the catalog; it then leaves the profile as it was, and no progress row
\* ever carries an id that is not in the catalog.
C17_CompleteUnknownQuest ==
  /\ \A r \in questProgress : r.questId \in DOMAIN quests
  /\ last.op = "complete" =>
       /\ last.result = "NotFound" <=> last.questId \notin DOMAIN quests
       /\ last.result = "NotFound" => profile = pre

\* a Complete of an unknown id refused while rows and a profile exist
C17_Witness ==
  /\ last.op = "complete" /\ last.result = "NotFound"
  /\ last.questId \notin DOMAIN quests
  /\ questProgress # {} /\ Len(profile) > 0

\* C18: DeleteArchived of a quest whose progress row is not archived fails
\* with InvalidState and leaves the rows as they were; when DeleteArchived
\* removes a row, it is the quest's row and it was archived.
C18_DeleteArchivedNeedsArchived ==
  [][\A q \in ArchiveQuestIdInputs :
       DeleteArchivedQuest(q) =>
         /\ (\E r \in questProgress : r.questId = q /\ r.isArchived = FALSE) =>
              /\ last'.result = "InvalidState"
              /\ questProgress' = questProgress
         /\ questProgress' # questProgress =>
              \E r \in questProgress :
                /\ r.questId = q /\ r.isArchived = TRUE
                /\ questProgress' = questProgress \ {r}]_vars

\* a DeleteArchived refused for a completed row that is not archived
C18_Witness ==
  /\ last.op = "deleteArchived" /\ last.result = "InvalidState"
  /\ \E r \in questProgress :
       r.questId = last.questId /\ r.completed = TRUE /\ r.isArchived = FALSE

\* C19: Archive and RestoreFromArchive leave the profile as it was, and in
\* every progress row the fields progress, completed and completedAt.
C19_ArchiveLeavesProfile ==
  [][\A q \in ArchiveQuestIdInputs :
       (ArchiveQuest(q) \/ RestoreQuestFromArchive(q)) =>
         /\ profile' = profile
         /\ Cardinality(questProgress') = Cardinality(questProgress)
         /\ \A r \in questProgress :
              \E n \in questProgress' :
                /\ n.id = r.id /\ n.questId = r.questId
                /\ n.progress = r.progress
                /\ n.completed = r.completed
                /\ n.completedAt = r.completedAt]_vars

\* a credited completion restored from the archive
C19_Witness ==
  /\ last.op = "restore" /\ last.result = "ok" /\ last.archived
  /\ RowCompleted(questProgress, last.questId)
  /\ ~RowArchived(questProgress, last.questId)
  /\ Len(profile) > 0 /\ profile[1].xp > 0

\* both clients' requests are over
AllDone == \A c \in Clients : requests[c].pc = "done"

\* C11: two Completes of the same quest, not completed before, handled at
\* the same time with a profile row present: when both are over the profile
\* holds the credit of one Complete (xp and cumulativeXp are the quest's
\* xpReward on top of the default 0) and the quest has one progress row,
\* completed.
C11_ConcurrentCompleteCreditsOnce ==
  \A q \in QuestIds :
    (/\ AllDone
     /\ \A c \in Clients :
          requests[c].op = "complete" /\ requests[c].questId = q /\ requests[c].result = "ok"
     /\ pre = <<DefaultProfile>>) =>
      /\ Len(profile) = 1
      /\ profile[1].xp = quests[q].xpReward
      /\ profile[1].cumulativeXp = quests[q].xpReward
      /\ Cardinality({ r \in questProgress : r.questId = q }) = 1
      /\ \A r \in questProgress : r.questId = q => r.completed = TRUE

\* C13: DeleteQuestGroup of a group that exists removes the group, every
\* quest of the group and every progress row of those quests, and leaves no
\* progress row that references a quest no longer there.
C13_DeleteQuestGroupCascades ==
  [][\A g \in GroupIds :
       (DeleteQuestGroup(g) /\ g \in questGroups) =>
         /\ g \notin questGroups'
         /\ \A q \in DOMAIN quests : quests[q].groupId = g => q \notin DOMAIN quests'
         /\ \A r \in questProgress' :
              /\ r.questId \in DOMAIN quests'
              /\ quests[r.questId].groupId # g]_vars

\* C20: at most one profile row exists in every state, and once a
\* GetProfile has been answered there is a row; a row created for an empty
\* store holds the defaults until a request changes it.
C20_ProfileSingleton ==
  /\ Len(profile) <= 1
  /\ (\E c \in Clients : requests[c].op = "getProfile" /\ requests[c].pc = "done") =>
       Len(profile) >= 1
  /\ (pre = <<>> /\ Len(profile) >= 1
      /\ \A c \in Clients : requests[c].op \in {"none", "getProfile"}) =>
       profile[1] = DefaultProfile

\* C21: with Complete, Cancel, Undo, Archive, Restore and DeleteArchived in
\* any order, every progress row has completedAt null when it is not
\* completed, and archivedAt and archiveReason null when it is not archived.
C21_RowNullInvariants ==
  \A r \in questProgress :
    /\ r.completed = FALSE => r.completedAt = NoTime
    /\ r.isArchived = FALSE => (r.archivedAt = NoTime /\ r.archiveReason = NULL)

\* a row restored from the archive after its completion was cancelled
C21_Witness ==
  /\ last.op = "restore" /\ last.result = "ok" /\ last.archived
  /\ \E r \in questProgress :
       r.questId = last.questId /\ r.completed = FALSE /\ r.isArchived = FALSE

\* C23: no progress row is archived without being completed.
C23_ArchivedImpliesCompleted ==
  \A r \in questProgress : r.isArchived = TRUE => r.completed = TRUE

\* C24: a Complete of a quest whose row is completed leaves every progress
\* row as it was; a successful Complete of a quest whose row is not
\* completed leaves that row with progress 1, completed, and completedAt now.
C24_CompleteOnExistingRow ==
  [][\A q \in ArchiveQuestIds :
       CompleteQuest(q) =>
         /\ RowCompleted(questProgress, q) => questProgress' = questProgress
         /\ (last'.result = "ok"
             /\ \E r \in questProgress : r.questId = q /\ r.completed = FALSE) =>
              \E n \in questProgress' :
                /\ n.questId = q /\ n.progress = 1 /\ n.completed = TRUE
                /\ n.completedAt = clock]_vars

\* a Complete, at a later time, of a completed and archived row: the row
\* keeps its completedAt and stays archived
C24_Witness ==
  /\ last.op = "complete" /\ last.result = "ok" /\ ~last.flipped /\ last.archived
  /\ \E r \in questProgress :
       /\ r.questId = last.questId /\ r.completed = TRUE /\ r.isArchived = TRUE
       /\ r.completedAt < clock

\* C25: Archive and DeleteArchived of a quest without a progress row fail
\* with NotFound and leave the progress rows and the profile as they were.
C25_NoRowIsNotFound ==
  [][\A q \in ArchiveQuestIds :
       ((ArchiveQuest(q) \/ DeleteArchivedQuest(q))
        /\ ~\E r \in questProgress : r.questId = q) =>
         /\ last'.result = "NotFound"
         /\ questProgress' = questProgress
         /\ profile' = profile]_vars

\* C30: with a profile row present, a Complete of a quest that is not
\* completed, rewards attribute points and names a targetAttribute outside
\* the five attribute names fails with an error and changes neither the
\* progress rows nor the profile.
C30_InvalidTargetRollsBack ==
  [][\A q \in ArchiveQuestIds :
       (/\ CompleteQuest(q)
        /\ Len(profile) > 0
        /\ ~RowCompleted(questProgress, q)
        /\ quests[q].attributePointReward > 0
        /\ quests[q].targetAttribute # NULL
        /\ quests[q].targetAttribute \notin {"physique", "mental", "success", "social", "skills"}) =>
         /\ last'.result = "error"
         /\ questProgress' = questProgress
         /\ profile' = profile]_vars

\* such a Complete refused for a quest whose row exists and is not completed
C30_Witness ==
  /\ last.op = "complete" /\ last.result = "error" /\ last.questId = OddQuestId
  /\ Len(profile) > 0
  /\ \E r \in questProgress : r.questId = OddQuestId /\ r.completed = FALSE

\* C26: DeleteQuest removes the quest and its progress row, whatever the
\* row's state, keeps every other quest and row, and leaves the profile as
\* it was; for an id that is not in the catalog it reports not found and
\* changes nothing.
C26_DeleteQuestKeepsProfile ==
  [][\A q \in QuestIdInputs :
       DeleteQuest(q) =>
         /\ profile' = profile
         /\ DOMAIN quests' = DOMAIN quests \ {q}
         /\ \A x \in DOMAIN quests' : quests'[x] = quests[x]
         /\ questProgress' = { r \in questProgress : r.questId # q }
         /\ \A r \in questProgress' : r.questId \in DOMAIN quests'
         /\ q \notin DOMAIN quests =>
              /\ last'.result = "NotFound"
              /\ quests' = quests
              /\ questProgress' = questProgress]_vars

\* a quest deleted while its credited completion was in the archive
C26_Witness ==
  /\ last.op = "deleteQuest" /\ last.archived
  /\ last.questId \in QuestIds /\ last.questId \notin DOMAIN quests
  /\ ~\E r \in questProgress : r.questId = last.questId
  /\ Len(profile) > 0 /\ profile[1].xp > 0

\* C27: with requests handled one at a time, the profile's level is
\* floor(xp / 800) + 1 and at least 1 in every state.
C27_LevelMatchesXp ==
  \A i \in DOMAIN profile :
    /\ profile[i].level = (profile[i].xp \div 800) + 1
    /\ profile[i].level >= 1

\* a profile at level 2 whose attributes were then updated
C27_Witness ==
  /\ last.op = "patchAttributes" /\ Len(profile) > 0
  /\ profile[1].level = 2 /\ profile[1].xp = 800

\* C22: in every state, also while two requests are handled at the same
\* time, each quest id has at most one progress row.
C22_OneRowPerQuest ==
  \A q \in QuestIdInputs :
    Cardinality({ r \in questProgress : r.questId = q }) <= 1

\* two Completes of a quest without a row, handled at the same time, are
\* over and the quest has its row
C22_Witness ==
  /\ AllDone
  /\ questProgress # {}
  /\ \E q \in QuestIds :
       /\ \A c \in Clients :
            requests[c].op = "complete" /\ requests[c].questId = q /\ requests[c].result = "ok"
       /\ pre \in {<<>>, <<DefaultProfile>>}

\* C28: two Completes of two different quests, neither completed before,
\* handled at the same time with the default profile: when both are over the
\* profile is the one that running them one after the other gives. xp and
\* cumulativeXp hold both xpRewards, level is floor(xp / 800) + 1,
\* availablePoints holds the untargeted reward and the level gained, and the
\* target attribute holds its credit.
C28_ConcurrentCompletesAddUp ==
  (/\ AllDone
   /\ \A c \in Clients : requests[c].op = "complete" /\ requests[c].result = "ok"
   /\ requests["a"].questId # requests["b"].questId
   /\ pre = <<DefaultProfile>>) =>
    /\ Len(profile) = 1
    /\ profile[1].xp = 800
    /\ profile[1].cumulativeXp = 800
    /\ profile[1].level = 2
    /\ profile[1].availablePoints = 3 + 1
    /\ profile[1].attributes["mental"] = 15

\* C29: two Cancels, or two Undos, of the same completed quest handled at the
\* same time, neither ending in a database error: one succeeds and the other
\* fails with InvalidState, and the profile is debited once, which takes it
\* back from the one credit it held to xp (cumulativeXp) 0, availablePoints 0
\* and the target attribute 10.
C29_ConcurrentRollbackDebitsOnce ==
  \A q \in QuestIds : \A op \in {"cancel", "undo"} :
    (/\ AllDone
     /\ \A c \in Clients :
          requests[c].op = op /\ requests[c].questId = q /\ requests[c].result # "error"
     /\ pre = CompletedStore(q).profile) =>
      /\ { requests[c].result : c \in Clients } = {"ok", "InvalidState"}
      /\ Len(profile) = 1
      /\ op = "cancel" => profile[1].xp = 0
      /\ op = "undo" => profile[1].cumulativeXp = 0
      /\ profile[1].availablePoints = 0
      /\ profile[1].attributes["mental"] = 10

====
